---- MODULE Spec2Model ----
(***************************************************************************)
(* TwitchTicker: chat events are sanitized, sampled, rewritten into a      *)
(* headline by a local LLM backend (with a template fallback) and pushed   *)
(* onto a bounded deque that HTTP readers poll together with an update     *)
(* counter.                                                                *)
(*                                                                         *)
(* Text is modelled character by character: a Python str is a sequence of  *)
(* one-character strings.  The two non-ASCII characters of the source, the *)
(* em dash of the templates and the ellipsis of clean_message, are the     *)
(* atoms "EMDASH" and "ELLIPSIS" (one character each).                     *)
(***************************************************************************)
EXTENDS Integers, Sequences, FiniteSets, TLC

(***************************************************************************)
(* Characters and the str methods the source uses.                         *)
(***************************************************************************)
WhitespaceChars == {" ", "\t", "\n", "\r"}

LowerChars == <<"a","b","c","d","e","f","g","h","i","j","k","l","m",
                "n","o","p","q","r","s","t","u","v","w","x","y","z">>

UpperChars == <<"A","B","C","D","E","F","G","H","I","J","K","L","M",
                "N","O","P","Q","R","S","T","U","V","W","X","Y","Z">>

IsSpace(c) == c \in WhitespaceChars

IsLowerChar(c) == \E i \in 1..Len(LowerChars) : LowerChars[i] = c

IsUpperChar(c) == \E i \in 1..Len(UpperChars) : UpperChars[i] = c

\* str.upper() on one character
upper_char(c) ==
    IF IsLowerChar(c)
    THEN UpperChars[CHOOSE i \in 1..Len(LowerChars) : LowerChars[i] = c]
    ELSE c

\* str.lower() on one character
lower_char(c) ==
    IF IsUpperChar(c)
    THEN LowerChars[CHOOSE i \in 1..Len(UpperChars) : UpperChars[i] = c]
    ELSE c

\* str.lower()
str_lower(s) == [i \in 1..Len(s) |-> lower_char(s[i])]

\* str.isupper(): at least one cased character and no lowercase one
str_isupper(w) ==
    /\ \E i \in 1..Len(w) : IsUpperChar(w[i])
    /\ \A i \in 1..Len(w) : ~IsLowerChar(w[i])

\* s[:n]
Prefix(s, n) == SubSeq(s, 1, IF n < Len(s) THEN n ELSE Len(s))

\* str.strip(): leading and trailing whitespace removed
str_strip(s) ==
    LET keep == {i \in 1..Len(s) : ~IsSpace(s[i])}
    IN  IF keep = {} THEN <<>>
        ELSE SubSeq(s, CHOOSE i \in keep : \A j \in keep : i <= j,
                       CHOOSE i \in keep : \A j \in keep : j <= i)

\* str.strip(ch): leading and trailing occurrences of the character ch removed
str_strip_char(s, ch) ==
    LET keep == {i \in 1..Len(s) : s[i] # ch}
    IN  IF keep = {} THEN <<>>
        ELSE SubSeq(s, CHOOSE i \in keep : \A j \in keep : i <= j,
                       CHOOSE i \in keep : \A j \in keep : j <= i)

\* end of the run of non-whitespace characters that starts at i (i-1 if none)
RunEnd(s, i) ==
    LET stops == {j \in i..Len(s) : IsSpace(s[j])}
    IN  IF stops = {} THEN Len(s)
        ELSE (CHOOSE j \in stops : \A k \in stops : j <= k) - 1

\* end of the run of whitespace characters that starts at i (i-1 if none)
SpaceEnd(s, i) ==
    LET stops == {j \in i..Len(s) : ~IsSpace(s[j])}
    IN  IF stops = {} THEN Len(s)
        ELSE (CHOOSE j \in stops : \A k \in stops : j <= k) - 1

\* str.split(): the whitespace-delimited words, from position i on
RECURSIVE SplitFrom(_, _)
SplitFrom(s, i) ==
    IF i > Len(s) THEN <<>>
    ELSE IF IsSpace(s[i]) THEN SplitFrom(s, SpaceEnd(s, i) + 1)
    ELSE <<SubSeq(s, i, RunEnd(s, i))>> \o SplitFrom(s, RunEnd(s, i) + 1)

str_split(s) == SplitFrom(s, 1)

\* " ".join(words)
RECURSIVE str_join(_)
str_join(words) ==
    IF words = <<>> THEN <<>>
    ELSE IF Len(words) = 1 THEN words[1]
    ELSE words[1] \o <<" ">> \o str_join(Tail(words))

\* re.sub(r"\s+", " ", s): every whitespace run becomes one space
RECURSIVE CollapseFrom(_, _)
CollapseFrom(s, i) ==
    IF i > Len(s) THEN <<>>
    ELSE IF IsSpace(s[i]) THEN <<" ">> \o CollapseFrom(s, SpaceEnd(s, i) + 1)
    ELSE SubSeq(s, i, RunEnd(s, i)) \o CollapseFrom(s, RunEnd(s, i) + 1)

collapse_whitespace(s) == CollapseFrom(s, 1)

\* whether pat occurs in s at position i
MatchesAt(s, i, pat) ==
    /\ i + Len(pat) - 1 <= Len(s)
    /\ \A k \in 1..Len(pat) : s[i + k - 1] = pat[k]

\* Python's "pat in s"
str_contains(s, pat) == \E i \in 1..(Len(s) + 1) : MatchesAt(s, i, pat)

(***************************************************************************)
(* clean_message                                                           *)
(***************************************************************************)
HttpScheme == <<"h","t","t","p",":","/","/">>

HttpsScheme == <<"h","t","t","p","s",":","/","/">>

Ellipsis == <<"ELLIPSIS">>

MaxMessageChars == 300

\* r"https?://\S+" tried at position i: the last position of the match, 0 if none
UrlMatchEnd(s, i) ==
    LET body == IF MatchesAt(s, i, HttpScheme) THEN i + Len(HttpScheme)
                ELSE IF MatchesAt(s, i, HttpsScheme) THEN i + Len(HttpsScheme)
                ELSE 0
    IN  IF body = 0 \/ body > Len(s) \/ IsSpace(s[body]) THEN 0
        ELSE RunEnd(s, body)

\* the first position from i on where the pattern matches, Len(s) + 1 if none
NextUrlStart(s, i) ==
    LET starts == {j \in i..Len(s) : UrlMatchEnd(s, j) > 0}
    IN  IF starts = {} THEN Len(s) + 1
        ELSE CHOOSE j \in starts : \A k \in starts : j <= k

\* re.sub(r"https?://\S+", "", s): the text before the next match is kept,
\* the match dropped, and the scan goes on behind it
RECURSIVE RemoveUrlsFrom(_, _)
RemoveUrlsFrom(s, i) ==
    IF i > Len(s) THEN <<>>
    ELSE LET j == NextUrlStart(s, i)
         IN  IF j > Len(s) THEN SubSeq(s, i, Len(s))
             ELSE SubSeq(s, i, j - 1) \o RemoveUrlsFrom(s, UrlMatchEnd(s, j) + 1)

remove_urls(s) == RemoveUrlsFrom(s, 1)

\* clean_message without the .strip() of line 60
clean_message_unstripped(msg) ==
    IF msg = <<>> THEN <<>>
    ELSE LET m == collapse_whitespace(remove_urls(msg))
         IN  IF Len(m) > MaxMessageChars
             THEN Prefix(m, MaxMessageChars) \o Ellipsis
             ELSE m

clean_message(msg) ==
    IF msg = <<>> THEN <<>>
    ELSE LET m == str_strip(collapse_whitespace(remove_urls(msg)))
         IN  IF Len(m) > MaxMessageChars
             THEN Prefix(m, MaxMessageChars) \o Ellipsis
             ELSE m

(***************************************************************************)
(* smart_title and template_fallback                                       *)
(***************************************************************************)
\* fix with swapcase() in place of upper()
fix_swapcase(word) ==
    IF str_isupper(word) THEN word
    ELSE IF word = <<>> THEN word
    ELSE IF IsUpperChar(word[1]) THEN <<lower_char(word[1])>> \o Tail(word)
    ELSE <<upper_char(word[1])>> \o Tail(word)

fix(word) ==
    IF str_isupper(word) THEN word
    ELSE IF word = <<>> THEN word
    ELSE <<upper_char(word[1])>> \o Tail(word)

smart_title(s) ==
    LET ws == str_split(s)
    IN  str_join([i \in 1..Len(ws) |-> fix(ws[i])])

Breaking == <<"B","R","E","A","K","I","N","G",":"," ">>
StunsTheInternet == <<" ","S","t","u","n","s"," ","T","h","e"," ","I","n","t","e","r","n","e","t"," ","EMDASH"," ">>
Alert == <<"A","L","E","R","T",":"," ">>
SparksFrenzy == <<" ","S","p","a","r","k","s"," ","F","r","e","n","z","y"," ","EMDASH"," ">>
LiveNow == <<"L","I","V","E"," ","N","O","W",":"," ">>
ShocksChat == <<" ","S","h","o","c","k","s"," ","C","h","a","t"," ","EMDASH"," ">>
HeadsUp == <<"H","E","A","D","S"," ","U","P",":"," ">>
JustDroppedThis == <<" ","J","u","s","t"," ","D","r","o","p","p","e","d"," ","T","h","i","s"," ","EMDASH"," ">>

options(username, message) ==
    << Breaking \o username \o StunsTheInternet \o message,
       Alert \o username \o SparksFrenzy \o message,
       LiveNow \o username \o ShocksChat \o message,
       HeadsUp \o username \o JustDroppedThis \o message >>

\* max(opts, key=len): the first of the longest
max_by_len(opts) ==
    opts[CHOOSE i \in 1..Len(opts) :
            /\ \A j \in 1..Len(opts) : Len(opts[j]) <= Len(opts[i])
            /\ \A j \in 1..(i - 1) : Len(opts[j]) < Len(opts[i])]

template_fallback(username, message) ==
    smart_title(max_by_len(options(username, message)))

(***************************************************************************)
(* generate_headline_local_llm.  The backend call ends in one of these     *)
(* ways; "ok" carries the value of the "response" field of the JSON body.  *)
(***************************************************************************)
HEADLINE_MAX_WORDS == 14

\* the calls of the try block that raise before a text is obtained:
\*   connection_error, timeout : requests.post        (network down, timeout=60)
\*   http_error                : resp.raise_for_status (4xx / 5xx)
\*   bad_json                  : resp.json()           (body is not JSON)
\*   not_object                : .get                  (JSON is not an object)
\*   not_string                : .strip                ("response" is not a string)
RaisingKinds ==
    {"connection_error", "timeout", "http_error", "bad_json", "not_object", "not_string"}

\* the JSON object has no "response" field: .get returns the default ""
FailureKinds == RaisingKinds \cup {"no_field"}

BackendRaises(outcome) == outcome.kind \in RaisingKinds

\* text = resp.json().get("response", "").strip()
response_text(outcome) ==
    IF outcome.kind = "no_field" THEN <<>> ELSE str_strip(outcome.text)

\* text.split('\n')[0]
first_line(text) ==
    LET nl == {i \in 1..Len(text) : text[i] = "\n"}
    IN  IF nl = {} THEN text
        ELSE SubSeq(text, 1, (CHOOSE i \in nl : \A j \in nl : i <= j) - 1)

\* words[:HEADLINE_MAX_WORDS] joined when there are more words than that
enforce_word_limit(headline) ==
    LET words == str_split(headline)
    IN  IF Len(words) > HEADLINE_MAX_WORDS
        THEN str_join(SubSeq(words, 1, HEADLINE_MAX_WORDS))
        ELSE headline

\* re.sub(re.escape(username), username, headline, flags=re.IGNORECASE)
RECURSIVE ReplaceNameFrom(_, _, _)
ReplaceNameFrom(username, headline, i) ==
    IF i > Len(headline) THEN <<>>
    ELSE IF username # <<>> /\ MatchesAt(str_lower(headline), i, str_lower(username))
    THEN username \o ReplaceNameFrom(username, headline, i + Len(username))
    ELSE <<headline[i]>> \o ReplaceNameFrom(username, headline, i + 1)

fix_username(username, headline) ==
    IF str_contains(str_lower(headline), str_lower(username))
    THEN ReplaceNameFrom(username, headline, 1)
    ELSE headline

\* lines 117-134: the headline made of a non-empty response text
primary_headline(username, text) ==
    LET line     == str_strip(first_line(text))
        unquoted == str_strip_char(str_strip_char(line, "\""), "'")
        limited  == enforce_word_limit(unquoted)
        named    == fix_username(username, limited)
    IN  smart_title(collapse_whitespace(named))

\* generate_headline_local_llm without the "if not text: raise" of lines 113-114
generate_headline_unchecked(username, message, outcome) ==
    IF BackendRaises(outcome) THEN template_fallback(username, message)
    ELSE primary_headline(username, response_text(outcome))

generate_headline_local_llm(username, message, outcome) ==
    IF BackendRaises(outcome) THEN template_fallback(username, message)
    ELSE IF response_text(outcome) = <<>> THEN template_fallback(username, message)
    ELSE primary_headline(username, response_text(outcome))

(***************************************************************************)
(* Inputs.  A chat event carries an author (message.author may be None)    *)
(* and a content; message.content None becomes "" at line 156, so the      *)
(* empty content stands for both.                                          *)
(***************************************************************************)
Alice == <<"a","l","i","c","e">>
BigBob == <<"B","i","g","B","o","b">>
Someone == <<"s","o","m","e","o","n","e">>

NoAuthor == [present |-> FALSE, name |-> <<>>]
Author(n) == [present |-> TRUE, name |-> n]

Failed(k) == [kind |-> k, text |-> <<>>]
Ok(t) == [kind |-> "ok", text |-> t]

Hi == <<"h","i">>
Blanks == <<" "," ">>
TabNewline == <<" ","\t","\n">>
OneUrl == <<"h","t","t","p",":","/","/","x",".","c","o">>
TwoUrls == <<" ","h","t","t","p","s",":","/","/","a",".","b","/","c"," "," ","h","t","t","p",":","/","/","d"," ">>
HiCheckNow == <<"h","i"," ","c","h","e","c","k"," ","h","t","t","p",":","/","/","x",".","c","o"," ","n","o","w">>
OkBareScheme == <<"o","k"," ","h","t","t","p","s",":","/","/">>
TenWords == <<"a"," ","b"," ","c"," ","d"," ","e"," ","f"," ","g"," ","h"," ","i"," ","j">>
HelloWorld == <<"H","E","L","L","O"," ","w","o","r","l","d">>

AliceWins == <<"a","l","i","c","e"," ","w","i","n","s">>
BlankLines == <<" "," ","\n"," ">>
BreakingNews == <<"b","r","e","a","k","i","n","g"," ","n","e","w","s",":"," ","a","l","i","c","e"," ","w","i","n","s"," ","b","i","g","!","!","\n","n","o","t","e",":"," ","f","i","c","t","i","o","n","a","l">>
QuotedAliceWins == <<"\"","A","l","i","c","e"," ","W","i","n","s","\"">>
SixteenWords == <<"o","n","e"," ","t","w","o"," ","t","h","r","e","e"," ","f","o","u","r"," ","f","i","v","e"," ","s","i","x"," ","s","e","v","e","n"," ","e","i","g","h","t"," ","n","i","n","e"," ","t","e","n"," ","e","l","e","v","e","n"," ","t","w","e","l","v","e"," ","t","h","i","r","t","e","e","n"," ","f","o","u","r","t","e","e","n"," ","f","i","f","t","e","e","n"," ","s","i","x","t","e","e","n">>
ShoutedNames == <<"B","I","G","B","O","B"," ","a","n","d"," ","A","L","I","C","E"," ","s","a","y"," ","h","i">>
SingleQuoted == <<" ","'","b","i","g","b","o","b"," "," ","r","o","c","k","s","'"," ">>
OnlyQuotes == <<"\"","\"">>

\* the inputs of the concurrent specification: the backend is down, slow,
\* returns garbage or answers
Authors == {Author(Alice)}
RawMessages == {<<>>, Hi}
Outcomes == {Failed("connection_error"), Failed("timeout"), Failed("bad_json"),
             Ok(AliceWins)}

\* the inputs of the text specification; every message is shorter than the
\* MaxMessageChars that clean_message keeps
TextAuthors == {Author(Alice), Author(BigBob), NoAuthor}
TextRawMessages ==
    {<<>>, Blanks, TabNewline, OneUrl, TwoUrls, HiCheckNow, HttpScheme,
     OkBareScheme, TenWords, HelloWorld}
TextOutcomes ==
    {Failed(k) : k \in FailureKinds}
    \cup {Ok(t) : t \in {<<>>, BlankLines, BreakingNews, QuotedAliceWins, SixteenWords,
                         ShoutedNames, SingleQuoted, OnlyQuotes}}

\* the random draw and MESSAGE_RATE in units of 1/RateScale:
\* random.random() is in [0, 1), the rate in [0, 1]
RateScale == 4
Draws == 0..(RateScale - 1)
\* MESSAGE_RATE = float(os.getenv("MESSAGE_RATE", 0.25))
DefaultRate == RateScale \div 4
Rates == {0, DefaultRate, RateScale}

\* capacity of the deque (deque(maxlen=MAX_HEADLINES)), scaled down
MAX_HEADLINES == 2
\* accepted events per run of the concurrent specification
MaxAppends == 3
\* accepted events per run of the configuration specification
MaxConfigEvents == 2
\* accepted events per run of the text specification
MaxTextEvents == 1
\* request threads; they meet only at the lock
Readers == {"r1"}

(***************************************************************************)
(* State.                                                                  *)
(***************************************************************************)
VARIABLES
    MESSAGE_RATE,      \* configuration, read once at start-up
    headlines,         \* the deque, most recent first
    _update_counter,
    _update_lock,      \* "free" or its holder
    ppc,               \* where the producer is in event_message
    username, raw, cleaned, headline,  \* locals of the event in hand
    draw,              \* the value random.random() returned for it
    result,            \* how the backend call of the event in hand ends
    lastEvent,         \* how the last call of event_message ended
    accepted,          \* events that passed both gates
    appended,          \* every headline appended, oldest first
    markRet,           \* the value mark_updated returned last
    rpc, rver,         \* where each reader is in api_headlines, the version it read
    response,          \* the last response each reader got
    title,             \* the calls of smart_title made on its own: the
                       \* argument and the value of the last one, and their number
    requests,          \* calls of requests.post made so far
    late               \* the request abandoned last at its timeout: the backend
                       \* is still at work on it ("pending"), has answered it
                       \* after all ("dropped"), or there is none ("none")

vars == <<MESSAGE_RATE, headlines, _update_counter, _update_lock, ppc,
          username, raw, cleaned, headline, draw, result,
          lastEvent, accepted, appended, markRet, rpc, rver, response,
          requests, late, title>>

store == <<headlines, _update_counter, _update_lock, appended, markRet>>
locals == <<username, raw, cleaned, headline, draw, result>>
readers == <<rpc, rver, response>>
backend == <<requests, late>>

NoResponse == [valid |-> FALSE, version |-> 0, items |-> <<>>, seen |-> 0]
NoResult == Failed("none")

\* no call of event_message is running: its frame does not exist
NoFrame ==
    /\ username = <<>> /\ raw = <<>> /\ cleaned = <<>> /\ headline = <<>>
    /\ draw = 0 /\ result = NoResult

\* the module level of the source has run, with the rate as configured
InitConfigured ==
    /\ MESSAGE_RATE \in Rates
    /\ headlines = <<>>
    /\ _update_counter = 0
    /\ _update_lock = "free"
    /\ ppc = "idle"
    /\ NoFrame
    /\ lastEvent = "none"
    /\ accepted = 0
    /\ appended = <<>>
    /\ markRet = 0
    /\ rpc = [r \in Readers |-> "idle"]
    /\ rver = [r \in Readers |-> 0]
    /\ response = [r \in Readers |-> NoResponse]
    /\ requests = 0
    /\ late = "none"
    /\ title = [arg |-> <<>>, ret |-> <<>>, calls |-> 0]

\* the same with MESSAGE_RATE left at its default
Init == InitConfigured /\ MESSAGE_RATE = DefaultRate

(***************************************************************************)
(* The producer: ChatToTickerBot.event_message, one event at a time (the   *)
(* coroutine never awaits, so the event loop runs each call to its end).   *)
(***************************************************************************)
\* message.author.name if message.author else "someone"
author_name(a) == IF a.present THEN a.name ELSE Someone

\* the comparison of line 162 turned around
sampled_out_inverted(d, rate) == d < rate

\* random.random() > MESSAGE_RATE
sampled_out(d, rate) == d > rate

\* requests.post without timeout=60: a call the backend never answers never ends
call_ends_without_timeout(outcome) == outcome.kind \in (FailureKinds \ {"timeout"}) \cup {"ok"}

\* requests.post(..., timeout=60): a call the backend never answers ends too,
\* by the Timeout exception
call_ends(outcome) == outcome.kind \in FailureKinds \cup {"ok"}

\* the new deque is built and thrown away: the shared one is left as it was
appendleft_on_copy(dq, x) == dq

\* a deque made without maxlen
appendleft_unbounded(dq, x) == <<x>> \o dq

\* deque.append in place of appendleft: a full deque drops its left end
append_right(dq, x) ==
    IF Len(dq) >= MAX_HEADLINES
    THEN SubSeq(dq, 2, Len(dq)) \o <<x>>
    ELSE dq \o <<x>>

\* deque(maxlen=MAX_HEADLINES).appendleft(x): a full deque drops its right end
appendleft(dq, x) ==
    IF Len(dq) >= MAX_HEADLINES
    THEN <<x>> \o SubSeq(dq, 1, MAX_HEADLINES - 1)
    ELSE <<x>> \o dq

\* the call returns: its frame is dropped
Return(how) ==
    /\ ppc' = "idle"
    /\ lastEvent' = how
    /\ username' = <<>> /\ raw' = <<>> /\ cleaned' = <<>> /\ headline' = <<>>
    /\ draw' = 0 /\ result' = NoResult

\* lines 155-157: an event is delivered and its content cleaned
event_message_begin(authors, raws, limit) ==
    /\ ppc = "idle"
    /\ accepted < limit
    /\ \E a \in authors : username' = author_name(a)
    /\ \E r \in raws : raw' = r /\ cleaned' = clean_message(r)
    /\ ppc' = "cleaned"
    /\ lastEvent' = "running"
    /\ UNCHANGED <<MESSAGE_RATE, title, backend, store, headline, draw, result, accepted, readers>>

\* lines 158-159: the cleaned message is empty, return
event_message_empty ==
    /\ ppc = "cleaned"
    /\ cleaned = <<>>
    /\ Return("empty")
    /\ UNCHANGED <<MESSAGE_RATE, title, backend, store, accepted, readers>>

\* line 162: random.random()
event_message_draw ==
    /\ ppc = "cleaned"
    /\ cleaned # <<>>
    /\ draw' \in Draws
    /\ ppc' = "drawn"
    /\ UNCHANGED <<MESSAGE_RATE, title, backend, store, username, raw, cleaned, headline, result,
                   lastEvent, accepted, readers>>

\* lines 162-163: the draw exceeds the rate, return
event_message_sampled_out ==
    /\ ppc = "drawn"
    /\ sampled_out(draw, MESSAGE_RATE)
    /\ Return("sampled_out")
    /\ UNCHANGED <<MESSAGE_RATE, title, backend, store, accepted, readers>>

\* the whole of the processing put under _update_lock: the lock is taken
\* before the request goes out
event_message_accept_locking(outcomes) ==
    /\ ppc = "drawn"
    /\ ~sampled_out(draw, MESSAGE_RATE)
    /\ _update_lock = "free"
    /\ _update_lock' = "producer"
    /\ result' \in outcomes
    /\ accepted' = accepted + 1
    /\ requests' = requests + 1
    /\ ppc' = "waiting"
    /\ UNCHANGED <<MESSAGE_RATE, title, late, headlines, _update_counter, appended,
                   markRet, username, raw, cleaned, headline, draw, lastEvent, readers>>

\* lines 162-165, 104-110: both gates passed, the request goes to the backend,
\* which is down, slow, broken or well
event_message_accept(outcomes) ==
    /\ ppc = "drawn"
    /\ ~sampled_out(draw, MESSAGE_RATE)
    /\ result' \in outcomes
    /\ accepted' = accepted + 1
    /\ requests' = requests + 1
    /\ ppc' = "waiting"
    /\ UNCHANGED <<MESSAGE_RATE, title, late, store, username, raw, cleaned, headline, draw,
                   lastEvent, readers>>

\* the control flow of lines 106-137: the call ends (response, error or
\* timeout) and generate_headline_local_llm returns to event_message
call_returns ==
    /\ ppc = "waiting"
    /\ call_ends(result)
    /\ ppc' = "append"

\* a retry loop around requests.post: a failed request is issued again
llm_return_retrying ==
    /\ ppc = "waiting"
    /\ call_ends(result)
    /\ IF result.kind \in RaisingKinds
       THEN /\ requests' = requests + 1
            /\ result' = Ok(AliceWins)
            /\ UNCHANGED <<ppc, headline>>
       ELSE /\ ppc' = "append"
            /\ headline' = generate_headline_local_llm(username, cleaned, result)
            /\ UNCHANGED <<requests, result>>
    /\ UNCHANGED <<MESSAGE_RATE, title, late, store, username, raw, cleaned, draw,
                   lastEvent, accepted, readers>>

\* lines 106-137, 165: the call ends and the headline is made; a request that
\* ended by the timeout is abandoned, the backend may still answer it
llm_return ==
    /\ call_returns
    /\ headline' = generate_headline_local_llm(username, cleaned, result)
    /\ late' = IF result.kind = "timeout" THEN "pending" ELSE late
    /\ UNCHANGED <<MESSAGE_RATE, title, requests, store, username, raw, cleaned, draw, result,
                   lastEvent, accepted, readers>>

\* the append counts itself, and mark_updated counts it once more
headlines_appendleft_bumping ==
    /\ ppc = "append"
    /\ headlines' = appendleft(headlines, headline)
    /\ appended' = Append(appended, headline)
    /\ _update_counter' = _update_counter + 1
    /\ ppc' = "mark"
    /\ UNCHANGED <<MESSAGE_RATE, title, backend, _update_lock, markRet, locals,
                   lastEvent, accepted, readers>>

\* line 166: headlines.appendleft(headline)
headlines_appendleft ==
    /\ ppc = "append"
    /\ headlines' = appendleft(headlines, headline)
    /\ appended' = Append(appended, headline)
    /\ ppc' = "mark"
    /\ UNCHANGED <<MESSAGE_RATE, title, backend, _update_counter, _update_lock, markRet, locals,
                   lastEvent, accepted, readers>>

\* lines 167, 45: mark_updated takes the lock
mark_updated_acquire ==
    /\ ppc = "mark"
    /\ _update_lock = "free"
    /\ _update_lock' = "producer"
    /\ ppc' = "locked"
    /\ UNCHANGED <<MESSAGE_RATE, title, backend, headlines, _update_counter, appended, markRet,
                   locals, lastEvent, accepted, readers>>

\* mark_updated returning the counter without the += 1 of line 46
mark_updated_return_unbumped ==
    /\ ppc = "locked"
    /\ markRet' = _update_counter
    /\ _update_lock' = "free"
    /\ Return("appended")
    /\ UNCHANGED <<MESSAGE_RATE, title, backend, headlines, _update_counter, appended, accepted, readers>>

\* lines 46-47, 168: the counter is bumped and returned, the lock released,
\* event_message returns
mark_updated_return ==
    /\ ppc = "locked"
    /\ _update_counter' = _update_counter + 1
    /\ markRet' = _update_counter + 1
    /\ _update_lock' = "free"
    /\ Return("appended")
    /\ UNCHANGED <<MESSAGE_RATE, title, backend, headlines, appended, accepted, readers>>

\* a handler that takes the late answer for a headline and stores it
late_response_stored ==
    /\ late = "pending"
    /\ late' = "dropped"
    /\ headlines' = appendleft(headlines, primary_headline(Alice, AliceWins))
    /\ appended' = Append(appended, primary_headline(Alice, AliceWins))
    /\ UNCHANGED <<MESSAGE_RATE, title, requests, _update_counter, _update_lock, markRet,
                   ppc, locals, lastEvent, accepted, readers>>

\* lines 106-110, 135-137: the backend answers a request that requests.post
\* gave up at its timeout; the connection is closed, no code receives the answer
late_response ==
    /\ late = "pending"
    /\ late' = "dropped"
    /\ UNCHANGED <<MESSAGE_RATE, title, requests, store, ppc, locals, lastEvent, accepted,
                   readers>>

(***************************************************************************)
(* A reader: api_headlines, on a Flask request thread.                     *)
(***************************************************************************)
\* lines 199, 51: get_update_counter takes the lock
get_update_counter_acquire(r) ==
    /\ rpc[r] = "idle"
    /\ _update_lock = "free"
    /\ _update_lock' = r
    /\ rpc' = [rpc EXCEPT ![r] = "locked"]
    /\ UNCHANGED <<MESSAGE_RATE, title, backend, headlines, _update_counter, appended, markRet,
                   ppc, locals, lastEvent, accepted, rver, response>>

\* line 52: the counter is read and the lock released
get_update_counter_return(r) ==
    /\ rpc[r] = "locked"
    /\ rver' = [rver EXCEPT ![r] = _update_counter]
    /\ _update_lock' = "free"
    /\ rpc' = [rpc EXCEPT ![r] = "version_read"]
    /\ UNCHANGED <<MESSAGE_RATE, title, backend, headlines, _update_counter, appended, markRet,
                   ppc, locals, lastEvent, accepted, response>>

\* lines 198-201: list(headlines) is copied and the response returned
api_headlines_respond(r) ==
    /\ rpc[r] = "version_read"
    /\ response' = [response EXCEPT ![r] =
          [valid |-> TRUE, version |-> rver[r], items |-> headlines,
           seen |-> Len(appended)]]
    /\ rpc' = [rpc EXCEPT ![r] = "idle"]
    /\ UNCHANGED <<MESSAGE_RATE, title, backend, store, ppc, locals, lastEvent, accepted, rver>>

Producer(authors, raws, outcomes, limit) ==
    \/ event_message_begin(authors, raws, limit)
    \/ event_message_empty
    \/ event_message_draw
    \/ event_message_sampled_out
    \/ event_message_accept(outcomes)
    \/ llm_return
    \/ headlines_appendleft
    \/ mark_updated_acquire
    \/ mark_updated_return

Reader(r) ==
    \/ get_update_counter_acquire(r)
    \/ get_update_counter_return(r)
    \/ api_headlines_respond(r)

\* producer and readers interleaved, default configuration
Next ==
    \/ Producer(Authors, RawMessages, Outcomes, MaxAppends)
    \/ late_response
    \/ \E r \in Readers : Reader(r)

Spec == Init /\ [][Next]_vars

\* the producer under every configured rate and every kind of raw message
ConfigNext == Producer(Authors, TextRawMessages, Outcomes, MaxConfigEvents)

ConfigSpec == InitConfigured /\ [][ConfigNext]_vars

\* one event through the pipeline, over every author, message and backend outcome
TextNext == Producer(TextAuthors, TextRawMessages, TextOutcomes, MaxTextEvents)

TextSpec == Init /\ [][TextNext]_vars

\* the strings of at most MaxTitleLen characters over a lower-case letter, two
\* upper-case letters, a space, a tab, a digit and a hyphen
MaxTitleLen == 3
TitleChars == {"a", "B", "C", " ", "\t", "1", "-"}
TitleInputs == UNION {[1..n -> TitleChars] : n \in 0..MaxTitleLen}

\* smart_title(s) for some s
smart_title_call ==
    /\ title.calls = 0
    /\ \E s \in TitleInputs : title' = [arg |-> s, ret |-> smart_title(s), calls |-> 1]
    /\ UNCHANGED <<MESSAGE_RATE, backend, store, ppc, locals, lastEvent, accepted,
                   readers>>

\* smart_title applied to the value it returned
smart_title_again ==
    /\ title.calls = 1
    /\ title' = [arg |-> title.ret, ret |-> smart_title(title.ret), calls |-> 2]
    /\ UNCHANGED <<MESSAGE_RATE, backend, store, ppc, locals, lastEvent, accepted,
                   readers>>

TitleNext == smart_title_call \/ smart_title_again

TitleSpec == Init /\ [][TitleNext]_vars

\* Scheduling: a thread that can take its next step takes it.  A started
\* event_message runs on; the backend call ends (timeout=60) and
\* generate_headline_local_llm, which makes a headline of every outcome,
\* returns; the lock is handed to a waiting mark_updated once the holder
\* leaves its with block, and a holder leaves it.  Events and page requests
\* need not arrive.
FairSpec ==
    /\ Spec
    /\ WF_vars(event_message_empty)
    /\ WF_vars(event_message_draw)
    /\ WF_vars(event_message_sampled_out)
    /\ WF_vars(event_message_accept(Outcomes))
    /\ WF_ppc(call_returns)
    /\ WF_vars(headlines_appendleft)
    /\ SF_vars(mark_updated_acquire)
    /\ WF_vars(mark_updated_return)
    /\ \A r \in Readers : WF_vars(get_update_counter_return(r))

(***************************************************************************)
(* Properties.                                                             *)
(***************************************************************************)
Min(a, b) == IF a < b THEN a ELSE b

WordCount(s) == Len(str_split(s))

Running == {"waiting", "append", "mark", "locked"}

\* a word that r"https?://\S+" matches from its first character on
IsUrlWord(w) ==
    \/ MatchesAt(w, 1, HttpScheme) /\ Len(w) > Len(HttpScheme)
    \/ MatchesAt(w, 1, HttpsScheme) /\ Len(w) > Len(HttpsScheme)

\* empty, whitespace only, or URLs and whitespace only
OnlyUrlsAndSpace(s) ==
    \A i \in 1..Len(str_split(s)) : IsUrlWord(str_split(s)[i])

\* the backend call fails: an error, a timeout, a bad status, a body that is
\* no JSON object holding a text, or an empty text
BackendFailed(o) ==
    \/ o.kind \in FailureKinds
    \/ o.kind = "ok" /\ \A i \in 1..Len(o.text) : IsSpace(o.text[i])

\* C1: every response of api_headlines is a consistent pair: its items are
\* min(version, N) long and its version is the number of appends its items
\* reflect.
C1_SnapshotConsistent ==
    \A r \in Readers :
        response[r].valid =>
            /\ Len(response[r].items) = Min(response[r].version, MAX_HEADLINES)
            /\ response[r].version = response[r].seen

\* C2: the history never holds more than N headlines, and an append at
\* capacity is carried out (the new headline is at the front), not rejected.
C2_HistoryBounded ==
    /\ Len(headlines) <= MAX_HEADLINES
    /\ Len(headlines) = Min(Len(appended), MAX_HEADLINES)
    /\ ppc \in {"mark", "locked"} =>
          /\ headlines # <<>>
          /\ headlines[1] = headline
          /\ Len(appended) = accepted

C2_Witness ==
    /\ Len(appended) = MAX_HEADLINES + 1
    /\ Len(headlines) = MAX_HEADLINES
    /\ headlines[1] = appended[MAX_HEADLINES + 1]

\* C3: the version starts at 0, never goes down, moves by one at a time,
\* equals the number of accepted events once they are fully processed, and
\* mark_updated returns the new version.
C3_VersionCountsAppends ==
    /\ _update_counter = 0
    /\ [](/\ markRet = _update_counter
          /\ ppc \notin Running => _update_counter = accepted
          /\ ppc \in Running => _update_counter = accepted - 1
          /\ ppc \in {"idle", "cleaned", "drawn", "waiting", "append"} =>
                _update_counter = Len(appended)
          /\ ppc \in {"mark", "locked"} => _update_counter + 1 = Len(appended))
    /\ [][\/ _update_counter' = _update_counter
          \/ /\ _update_counter' = _update_counter + 1
             /\ markRet' = _update_counter']_vars

C3_Witness ==
    /\ ppc = "idle"
    /\ accepted = 2
    /\ _update_counter = 2
    /\ markRet = 2

\* C4: the history is the last min(k, N) of the k headlines appended, the
\* most recent first, and a step changes it only by putting one headline in
\* front and, when it was full, dropping the oldest.
C4_MostRecentFirst ==
    /\ [](/\ Len(headlines) = Min(Len(appended), MAX_HEADLINES)
          /\ \A i \in 1..Len(headlines) :
                headlines[i] = appended[Len(appended) + 1 - i])
    /\ [][\/ headlines' = headlines
          \/ /\ headlines' # <<>>
             /\ headlines'[1] = headline
             /\ Len(headlines') = Min(Len(headlines) + 1, MAX_HEADLINES)
             /\ Tail(headlines') = SubSeq(headlines, 1, Len(headlines') - 1)]_vars

C4_Witness ==
    /\ ppc = "idle"
    /\ Len(appended) = MAX_HEADLINES + 1
    /\ appended[1] # appended[2]
    /\ headlines = [i \in 1..MAX_HEADLINES |-> appended[MAX_HEADLINES + 2 - i]]

\* C5: with the sampling rate 0 no event reaches the transformer and the
\* history and the version never change, whatever the draw.
C5_RateZeroAcceptsNothing ==
    MESSAGE_RATE = 0 =>
        /\ ppc \notin Running
        /\ accepted = 0
        /\ headlines = <<>>
        /\ _update_counter = 0

\* C6: with the sampling rate 1 no draw samples an event out: every event
\* whose cleaned text is not empty goes on to the transformer, and each one
\* that went through made one append.
C6_RateOneAcceptsAll ==
    MESSAGE_RATE = RateScale =>
        /\ lastEvent # "sampled_out"
        /\ ppc = "drawn" =>
              /\ ~sampled_out(draw, MESSAGE_RATE)
              /\ ENABLED event_message_accept(Outcomes)
              /\ ~ENABLED event_message_sampled_out
        /\ ppc = "idle" => Len(appended) = accepted /\ _update_counter = accepted

C6_Witness ==
    /\ MESSAGE_RATE = RateScale
    /\ draw = RateScale - 1
    /\ ppc = "mark"
    /\ accepted = 2
    /\ Len(appended) = 2

\* C7: a raw text that is empty, whitespace only or URLs and whitespace only
\* cleans to the empty text, and an event whose cleaned text is empty ends
\* there: nothing is drawn, no call is made, history, version and the count
\* of accepted events stay as they are, under every rate.
C7_EmptyIsDropped ==
    /\ [](ppc = "cleaned" =>
            /\ OnlyUrlsAndSpace(raw) => cleaned = <<>>
            /\ cleaned = <<>> => ENABLED event_message_empty /\ ~ENABLED event_message_draw)
    /\ [][ppc = "cleaned" /\ cleaned = <<>> =>
            /\ ppc' = "idle"
            /\ lastEvent' = "empty"
            /\ UNCHANGED <<headlines, _update_counter, accepted, appended>>]_vars

C7_Witness ==
    /\ lastEvent = "empty"
    /\ ppc = "idle"
    /\ MESSAGE_RATE = RateScale
    /\ Len(headlines) = 1
    /\ _update_counter = 1

\* C8: whenever the backend call fails the call still returns, the headline
\* is template_fallback(username, message), and the event appends that one
\* headline and moves the version up by one.
C8_FailureFallsBack ==
    /\ [](/\ ppc = "waiting" => call_ends(result)
          /\ ppc \in {"append", "mark", "locked"} /\ BackendFailed(result) =>
                headline = template_fallback(username, cleaned)
          /\ ppc = "append" => Len(appended) = accepted - 1
          /\ ppc \in {"mark", "locked"} =>
                /\ Len(appended) = accepted
                /\ headlines[1] = headline
                /\ _update_counter = accepted - 1)
    /\ [][ppc = "locked" =>
            /\ _update_counter' = _update_counter + 1
            /\ appended' = appended
            /\ headlines' = headlines]_vars

C8_Witness ==
    /\ ppc = "locked"
    /\ result = Failed("http_error")
    /\ username = Alice
    /\ raw = HiCheckNow
    /\ headlines = <<template_fallback(Alice, clean_message(HiCheckNow))>>

\* C10: every headline the transformer returns, and so every headline of the
\* store, has at most HEADLINE_MAX_WORDS words.
C10_WordCap ==
    /\ ppc \in {"append", "mark", "locked"} => WordCount(headline) <= HEADLINE_MAX_WORDS
    /\ \A i \in 1..Len(headlines) : WordCount(headlines[i]) <= HEADLINE_MAX_WORDS

\* C9: every event that passed the gate is appended and counted after a
\* bounded wait, however the backend call ends, and event_message returns,
\* so that later events are processed.
C9_PipelineLive ==
    /\ \A k \in 1..MaxAppends :
          (accepted = k) ~> (_update_counter = k /\ Len(appended) = k)
    /\ (ppc # "idle") ~> (ppc = "idle")

C9_Witness ==
    /\ ppc = "idle"
    /\ lastEvent = "appended"
    /\ _update_counter = 2
    /\ appended = <<template_fallback(Alice, Hi), primary_headline(Alice, AliceWins)>>
    /\ headlines = <<primary_headline(Alice, AliceWins), template_fallback(Alice, Hi)>>

\* C11: what template_fallback returns contains the author as supplied,
\* character for character, and the message as supplied.
C11_FallbackKeepsInputs ==
    ppc \in {"append", "mark", "locked"} /\ BackendFailed(result) =>
        /\ str_contains(headline, username)
        /\ str_contains(headline, cleaned)

\* C12: the headline generate_headline_local_llm returns for a non-empty
\* cleaned message, and so every stored headline, is not empty, whatever the
\* backend did.
C12_HeadlineNotEmpty ==
    /\ ppc \in {"append", "mark", "locked"} => headline # <<>>
    /\ \A i \in 1..Len(headlines) : headlines[i] # <<>>

\* C13: the answer the backend gives to a request that had timed out changes
\* neither the history nor the version; headlines enter the history only by
\* the appendleft of their own event, one per accepted event and in the order
\* of the events, and the headline of a timed-out call is the fallback.
C13_LateResponseIgnored ==
    /\ [](/\ Len(appended) <= accepted
          /\ ppc \in {"append", "mark", "locked"} /\ result.kind = "timeout" =>
                headline = template_fallback(username, cleaned)
          /\ ppc \in {"mark", "locked"} =>
                /\ Len(appended) = accepted
                /\ appended[accepted] = headline
                /\ headlines[1] = headline
          /\ ppc = "idle" => Len(appended) = accepted /\ _update_counter = accepted)
    /\ [][late = "pending" /\ late' = "dropped" =>
            UNCHANGED <<headlines, _update_counter, appended>>]_vars
    /\ [][appended' # appended =>
            ppc = "append" /\ appended' = Append(appended, headline)]_vars

C13_Witness ==
    /\ late = "dropped"
    /\ ppc = "idle"
    /\ accepted = 1
    /\ _update_counter = 1
    /\ headlines = <<template_fallback(Alice, Hi)>>

\* C18: every accepted event makes one request to the backend and no more,
\* whatever the request's end; an event dropped at the empty check or at the
\* gate leaves nothing behind; the appends are as many as the accepted events
\* that were fully processed.
C18_NoRetry ==
    /\ [](/\ requests = accepted
          /\ ppc \in {"idle", "cleaned", "drawn"} =>
                Len(appended) = accepted /\ _update_counter = accepted
          /\ ppc = "idle" => NoFrame)
    /\ [][requests' # requests =>
            /\ ppc = "drawn"
            /\ requests' = requests + 1
            /\ accepted' = accepted + 1]_vars
    /\ [][(ppc = "cleaned" \/ ppc = "drawn") /\ ppc' = "idle" =>
            UNCHANGED <<requests, accepted, headlines, _update_counter, appended>>]_vars

C18_Witness ==
    /\ ppc = "idle"
    /\ lastEvent = "sampled_out"
    /\ requests = 2
    /\ accepted = 2
    /\ appended = <<template_fallback(Alice, Hi), template_fallback(Alice, Hi)>>

\* C14: smart_title keeps an all-upper-case word, upper-cases the first
\* character of any other word and joins the words by single spaces; applied
\* to its own result it returns that result.
C14_SmartTitleIdempotent ==
    /\ title.calls = 1 =>
          /\ Len(str_split(title.ret)) = Len(str_split(title.arg))
          /\ \A i \in 1..Len(str_split(title.arg)) :
                LET w == str_split(title.arg)[i]
                    v == str_split(title.ret)[i]
                IN  /\ Len(v) = Len(w)
                    /\ Tail(v) = Tail(w)
                    /\ v[1] = IF str_isupper(w) THEN w[1] ELSE upper_char(w[1])
          /\ title.ret = str_join(str_split(title.ret))
    /\ title.calls = 2 => title.ret = title.arg

C14_Witness ==
    /\ title.calls = 2
    /\ title.arg = <<"A", " ", "B">>
    /\ title.ret = <<"A", " ", "B">>

\* C15: a response with version v holds the headline of the v-th append
\* unless that one was evicted: its items are at least min(v, N) long and
\* reflect at least v appends.
C15_NoBumpWithoutHeadline ==
    \A r \in Readers :
        response[r].valid =>
            /\ Len(response[r].items) >= Min(response[r].version, MAX_HEADLINES)
            /\ response[r].seen >= response[r].version

C15_Witness ==
    /\ response["r1"].valid
    /\ response["r1"].version = 1
    /\ Len(response["r1"].items) = 2
    /\ response["r1"].seen = 2

\* C16: two responses that report the same version carry the same items.
C16_SameVersionSameItems ==
    [][\A r \in Readers :
          /\ response[r].valid
          /\ response'[r] # response[r]
          /\ response'[r].version = response[r].version
          => response'[r].items = response[r].items]_vars

C19_ReaderVersionsMonotonic ==
    /\ [](\A r \in Readers :
            /\ rpc[r] = "version_read" => rver[r] <= Len(appended)
            /\ rpc[r] = "version_read" /\ response[r].valid =>
                  rver[r] >= response[r].version
            /\ response[r].valid => response[r].version <= response[r].seen)
    /\ [][\A r \in Readers :
            /\ response'[r].version >= response[r].version
            /\ rver'[r] # rver[r] =>
                  rver'[r] = _update_counter /\ rver'[r] <= Len(appended)]_vars

C19_Witness ==
    /\ rpc["r1"] = "version_read"
    /\ response["r1"].valid
    /\ response["r1"].version = 1
    /\ rver["r1"] = 2
    /\ ppc = "mark"

\* C20: on the primary path, wherever the headline returned holds the author
\* name in some casing, it holds it in the casing of the author name.
C20_AuthorCasingKept ==
    ppc \in {"append", "mark", "locked"} /\ ~BackendFailed(result) =>
        \A i \in 1..Len(headline) :
            MatchesAt(str_lower(headline), i, str_lower(username)) =>
                MatchesAt(headline, i, username)

====
